---- MODULE Spec2Model ----
(***************************************************************************)
(* auto-tower: template matching on a captured screen and the polling      *)
(* loop that taps what it finds (src/src/main.rs, src/src/ui.rs,           *)
(* src/src/assets.rs).                                                     *)
(*                                                                         *)
(* Two specifications:                                                     *)
(*   Spec    the loop of main(), one action per statement of the loop;     *)
(*   SpecFn  single calls of UIMask::crop, UIMask::to_point,               *)
(*           UISurface::random_point and with_surface on small inputs.     *)
(*                                                                         *)
(* Scores are f32 in the code; here they are integers in hundredths        *)
(* (0.75 is 75).  Images carry their dimensions and, in SpecFn, their      *)
(* pixels.                                                                 *)
(***************************************************************************)
EXTENDS Integers, Sequences, FiniteSets, TLC

VARIABLES
    pc,                   \* position of main(): the statement to run next
    gems_template,        \* main.rs:158, dimensions of the loaded template
    retry_run_template,   \* main.rs:159
    screen,               \* main.rs:175, dimensions of the captured screen
    surface,              \* the Option<UISurface> bound by the if-let
    sleep_duration_secs,  \* main.rs:174
    log,                  \* history: what the current cycle did, in order
    fcall,                \* SpecFn: the call and its arguments
    fret                  \* SpecFn: what it returned

vars == <<pc, gems_template, retry_run_template, screen, surface,
          sleep_duration_secs, log, fcall, fret>>

----------------------------------------------------------------------------
(* Bounds of the model *)

\* Templates are MaxTpl x MaxTpl at most, or one oversized bitmap.
MaxTpl == 2
\* The best location is within MaxOff of an edge of the score image.
MaxOff == 0
\* The device's screen is the configured size less 0..MaxShrink on each axis.
MaxShrink == 1
\* SpecFn: images, masks and templates have sides up to about MaxImg.
MaxImg == 2

----------------------------------------------------------------------------
(* Constants of the program *)

\* main.rs:20, MIN_SCORE = 0.75, in hundredths.
MIN_SCORE == 75

\* main.rs:89, "wm size 319x695".
SCREEN == [width |-> 319, height |-> 695]

\* ui.rs:57-63 and 81-87: the two masks that are searched.  (GEM_CURRENCY and
\* WAVE_COUNT are only read by the OCR of print_stats.)
GEM_COLUMN ==
    [name |-> "GEM_COLUMN", x |-> 0, y |-> 0, width |-> 90, height |-> 695]
BATTLE_END_SCREEN ==
    [name |-> "BATTLE_END_SCREEN", x |-> 16, y |-> 150, width |-> 287, height |-> 400]

\* main.rs:174, 182, 188: the waits in seconds; main.rs:179: the pause in ms.
DEFAULT_SLEEP_SECS == 60
GEMS_SLEEP_SECS == 630
RETRY_SLEEP_SECS == 30
TAP_PAUSE_MS == 500

----------------------------------------------------------------------------
(* ui.rs *)

Min(a, b) == IF a <= b THEN a ELSE b

UIPoint(x, y) == [x |-> x, y |-> y]

UISurface(top_left, bottom_right) ==
    [top_left |-> top_left, bottom_right |-> bottom_right]

\* image::imageops::crop_dimms, which DynamicImage::crop_imm (ui.rs:90) applies
\* to its arguments: the rectangle is clamped to the image, never refused.
crop_dimms(img, x, y, width, height) ==
    LET cx == Min(x, img.width)
        cy == Min(y, img.height)
    IN  [x |-> cx, y |-> cy,
         width |-> Min(width, img.width - cx),
         height |-> Min(height, img.height - cy)]

\* UIMask::crop on an image with pixels: pixel (i, j) of the result is pixel
\* (d.x + i, d.y + j) of img.  The return type is DynamicImage: there is no
\* error to return.
crop(self, img) ==
    LET d == crop_dimms(img, self.x, self.y, self.width, self.height)
    IN  [width |-> d.width, height |-> d.height,
         px |-> [p \in (0 .. d.width - 1) \X (0 .. d.height - 1) |->
                    img.px[<<d.x + p[1], d.y + p[2]>>]]]

\* UIMask::apply as far as dimensions go: crop, then apply_threshold
\* (assets.rs:9-12), which keeps the dimensions and always returns Ok.
apply(self, img) ==
    LET d == crop_dimms(img, self.x, self.y, self.width, self.height)
    IN  [width |-> d.width, height |-> d.height]

\* u32 additions; the coordinates stay far below 2^32 (a location is inside
\* the searched bitmap), so they never wrap.
to_point_swapped(self, x, y) == UIPoint(self.x + y, self.y + x)

to_point(self, x, y) == UIPoint(self.x + x, self.y + y)

\* rand::random_range(a..=b): any value of the inclusive range; an empty range
\* panics.
random_range_half_open(lo, hi) == lo .. hi - 1

random_range(lo, hi) == lo .. hi

\* UISurface::random_point: the points it can return (none: it panics).
random_point(self) ==
    { UIPoint(x, y) :
        x \in random_range(self.top_left.x, self.bottom_right.x),
        y \in random_range(self.top_left.y, self.bottom_right.y) }

----------------------------------------------------------------------------
(* main.rs: with_surface *)

\* if best_score >= MIN_SCORE (main.rs:112)
score_passes_strict(best_score) == best_score > MIN_SCORE

score_passes(best_score) == best_score >= MIN_SCORE

\* imageproc::template_matching::match_template (main.rs:103) asserts that the
\* template is no larger than the image on either axis and panics otherwise.
match_template_unchecked(input, template) == TRUE

match_template_fits(input, template) ==
    /\ input.width >= template.width
    /\ input.height >= template.height

\* The values of 0 .. n within off of either end.
Edge(n, off) == { k \in 0 .. n : k <= off \/ k >= n - off }

\* The locations find_extremes (main.rs:108) can report: those of the score
\* image, which is (iw - tw + 1) x (ih - th + 1); (0, 0) for an empty one.
\* off narrows them to the ones near the edges of the score image.
find_extremes_locations(input, template, off) ==
    LET locs == Edge(input.width - template.width, off)
                    \X Edge(input.height - template.height, off)
    IN  IF locs = {} THEN {<<0, 0>>} ELSE locs

\* The best scores find_extremes can report, in hundredths.
Scores == {0, MIN_SCORE - 1, MIN_SCORE, MIN_SCORE + 1, 100}

\* with_surface(screen, template, mask), given what its collaborators did:
\* saved (input.save succeeded), best_score and best_location (find_extremes).
with_surface(scr, template, mask, saved, best_score, best_location) ==
    LET input == apply(mask, scr)
    IN  IF ~saved
        THEN [tag |-> "Err"]
        ELSE IF ~match_template_fits(input, template)
        THEN [tag |-> "Panic"]
        ELSE IF score_passes(best_score)
        THEN [tag |-> "Some",
              surface |-> UISurface(
                  to_point(mask, best_location[1], best_location[2]),
                  to_point(mask, best_location[1] + template.width,
                                 best_location[2] + template.height)),
              best_score |-> best_score, best_location |-> best_location]
        ELSE [tag |-> "None",
              best_score |-> best_score, best_location |-> best_location]

----------------------------------------------------------------------------
(* main.rs: the loop of main() *)

NoPoint == UIPoint(0, 0)
NoSurface == [tag |-> "None"]
NoScreen == [width |-> 0, height |-> 0]
NoCall == [fn |-> "none"]
NoRet == [tag |-> "none"]

\* One entry of the cycle's history.
Event(op, who, hit, at, dur) ==
    [op |-> op, who |-> who, hit |-> hit, at |-> at, dur |-> dur]

\* The templates AssetTemplate::from_file (assets.rs:21-35) can have loaded:
\* small ones, and a bitmap as large as the whole screen.
Templates ==
    { [width |-> w, height |-> h] : w \in 1 .. MaxTpl, h \in 1 .. MaxTpl }
        \cup { [width |-> SCREEN.width, height |-> SCREEN.height] }

\* The screens droid.snapshot can deliver: "wm size" (main.rs:88-91) asks for
\* SCREEN, and its outcome is not looked at.
DeviceScreens ==
    { [width |-> SCREEN.width - d, height |-> SCREEN.height - d] :
        d \in 0 .. MaxShrink }

\* Where control goes from prepare_screen(&mut droid)? (main.rs:175).
after_capture_swallowed(ok) == "stats"

after_capture(ok) == IF ok THEN "stats" ELSE "failed"

\* Where control goes after the claim-gems branch (main.rs:177-183): past the
\* else-if, to the sleep.
after_gems_branch_fallthrough == "match_retry"

after_gems_branch == "sleep"

\* Where control goes after the first tap of the claim-gems branch
\* (main.rs:178-179).
after_first_gems_tap_single == "sleep"

after_first_gems_tap == "pause"

\* sleep_duration_secs = 630 (main.rs:182).
gems_sleep_not_set == DEFAULT_SLEEP_SECS

gems_sleep == GEMS_SLEEP_SECS

LoopUnchangedFn == UNCHANGED <<fcall, fret>>

Init ==
    /\ pc = "capture"
    /\ gems_template \in Templates
    /\ retry_run_template \in Templates
    /\ screen = NoScreen
    /\ surface = NoSurface
    /\ sleep_duration_secs = DEFAULT_SLEEP_SECS
    /\ log = <<>>
    /\ fcall = NoCall
    /\ fret = NoRet

\* main.rs:174-175: let mut sleep_duration_secs = 60; prepare_screen(..)?
\* prepare_screen (main.rs:68-75) fails when the snapshots directory, the
\* snapshot, the pruning or the decoding fails.
Capture ==
    /\ pc = "capture"
    /\ \E ok \in BOOLEAN :
        /\ pc' = after_capture(ok)
        /\ IF ok
           THEN /\ \E s \in DeviceScreens : screen' = s
                /\ log' = <<Event("capture", "-", TRUE, NoPoint, 0)>>
           ELSE /\ screen' = NoScreen
                /\ log' = <<Event("capture", "-", FALSE, NoPoint, 0)>>
    /\ sleep_duration_secs' = DEFAULT_SLEEP_SECS
    /\ surface' = NoSurface
    /\ UNCHANGED <<gems_template, retry_run_template>>
    /\ LoopUnchangedFn

\* main.rs:176: print_stats(&engine, &screen)? (main.rs:145-151), two
\* get_ocr_text calls, each of which can fail.
PrintStats ==
    /\ pc = "stats"
    /\ \E ok \in BOOLEAN :
        /\ pc' = IF ok THEN "match_gems" ELSE "failed"
        /\ log' = Append(log, Event("stats", "-", ok, NoPoint, 0))
    /\ UNCHANGED <<gems_template, retry_run_template, screen, surface,
                   sleep_duration_secs>>
    /\ LoopUnchangedFn

\* One evaluation of with_surface in the loop, for the pair (template, mask).
Evaluate(who, template, mask, onSome, onNone) ==
    \E saved \in BOOLEAN, best_score \in Scores,
       best_location \in find_extremes_locations(apply(mask, screen), template, MaxOff) :
        LET r == with_surface(screen, template, mask, saved, best_score, best_location)
        IN  /\ pc' = CASE r.tag = "Some" -> onSome
                       [] r.tag = "None" -> onNone
                       [] r.tag = "Err" -> "failed"
                       [] r.tag = "Panic" -> "panicked"
            /\ surface' = IF r.tag = "Some"
                          THEN [tag |-> "Some", surface |-> r.surface]
                          ELSE NoSurface
            /\ log' = Append(log, Event("eval", who, r.tag = "Some", NoPoint, 0))

\* main.rs:177: if let Some(surface) = with_surface(.., &gems_template, GEM_COLUMN)?
MatchGems ==
    /\ pc = "match_gems"
    /\ Evaluate("gems", gems_template, GEM_COLUMN, "tap_gems_1", "match_retry")
    /\ UNCHANGED <<gems_template, retry_run_template, screen, sleep_duration_secs>>
    /\ LoopUnchangedFn

\* droid.touch(surface.random_point().into()).execute()?
Touch(who, next) ==
    /\ surface.tag = "Some"
    /\ \E at \in random_point(surface.surface), ok \in BOOLEAN :
        /\ pc' = IF ok THEN next ELSE "failed"
        /\ log' = Append(log, Event("tap", who, ok, at, 0))

\* main.rs:178
TapGemsFirst ==
    /\ pc = "tap_gems_1"
    /\ Touch("gems", after_first_gems_tap)
    /\ UNCHANGED <<gems_template, retry_run_template, screen, surface,
                   sleep_duration_secs>>
    /\ LoopUnchangedFn

\* main.rs:179: droid.sleep(Duration::from_millis(500))
Pause ==
    /\ pc = "pause"
    /\ pc' = "tap_gems_2"
    /\ log' = Append(log, Event("pause", "gems", TRUE, NoPoint, TAP_PAUSE_MS))
    /\ UNCHANGED <<gems_template, retry_run_template, screen, surface,
                   sleep_duration_secs>>
    /\ LoopUnchangedFn

\* main.rs:180-182: the second tap, then sleep_duration_secs = 630
TapGemsSecond ==
    /\ pc = "tap_gems_2"
    /\ Touch("gems", after_gems_branch)
    /\ sleep_duration_secs' =
           IF pc' = "failed" THEN sleep_duration_secs ELSE gems_sleep
    /\ UNCHANGED <<gems_template, retry_run_template, screen, surface>>
    /\ LoopUnchangedFn

\* main.rs:183-184: else if let Some(surface) =
\*     with_surface(.., &retry_run_template, BATTLE_END_SCREEN)?
MatchRetry ==
    /\ pc = "match_retry"
    /\ Evaluate("retry", retry_run_template, BATTLE_END_SCREEN, "tap_retry", "sleep")
    /\ UNCHANGED <<gems_template, retry_run_template, screen, sleep_duration_secs>>
    /\ LoopUnchangedFn

\* main.rs:187-188: the tap, then sleep_duration_secs = 30
TapRetry ==
    /\ pc = "tap_retry"
    /\ Touch("retry", "sleep")
    /\ sleep_duration_secs' =
           IF pc' = "failed" THEN sleep_duration_secs ELSE RETRY_SLEEP_SECS
    /\ UNCHANGED <<gems_template, retry_run_template, screen, surface>>
    /\ LoopUnchangedFn

\* main.rs:191: droid.sleep(Duration::from_secs(sleep_duration_secs)), and
\* round the loop.
Sleep ==
    /\ pc = "sleep"
    /\ pc' = "capture"
    /\ log' = Append(log, Event("sleep", "-", TRUE, NoPoint, sleep_duration_secs))
    /\ UNCHANGED <<gems_template, retry_run_template, screen, surface,
                   sleep_duration_secs>>
    /\ LoopUnchangedFn

Next ==
    \/ Capture
    \/ PrintStats
    \/ MatchGems
    \/ TapGemsFirst
    \/ Pause
    \/ TapGemsSecond
    \/ MatchRetry
    \/ TapRetry
    \/ Sleep

Spec == Init /\ [][Next]_vars

----------------------------------------------------------------------------
(* Single calls: crop, to_point, random_point, with_surface *)

\* Images with pixels.  crop copies pixels and never looks at their values, so
\* each pixel carries its own position as its value: any pixel put in the
\* wrong place is seen.
SmallImages ==
    { [width |-> w, height |-> h,
       px |-> [p \in (0 .. w - 1) \X (0 .. h - 1) |-> p[1] + w * p[2]]] :
        w \in 1 .. MaxImg, h \in 1 .. MaxImg }

SmallScreens == { [width |-> w, height |-> h] : w \in 1 .. MaxImg, h \in 1 .. MaxImg }

\* Masks inside, across the border of, and outside the small images.
SmallMasks ==
    { [name |-> "M", x |-> x, y |-> y, width |-> w, height |-> h] :
        x \in 0 .. MaxImg, y \in 0 .. MaxImg,
        w \in 1 .. MaxImg + 1, h \in 1 .. MaxImg + 1 }

SmallTemplates ==
    { [width |-> w, height |-> h] : w \in 1 .. MaxImg + 1, h \in 1 .. MaxImg + 1 }

SurfaceCoords == (0 .. MaxImg) \cup {10}

SmallSurfaces ==
    { UISurface(UIPoint(a, b), UIPoint(c, d)) :
        a \in SurfaceCoords, b \in SurfaceCoords,
        c \in SurfaceCoords, d \in SurfaceCoords }

FnCalls ==
    { [fn |-> "crop", mask |-> m, img |-> i] : m \in SmallMasks, i \in SmallImages }
        \cup { [fn |-> "random_point", surface |-> s] : s \in SmallSurfaces }
        \cup { [fn |-> "with_surface", screen |-> i, template |-> t, mask |-> m] :
                 i \in SmallScreens, t \in SmallTemplates, m \in SmallMasks }

InitFn ==
    /\ pc = "call"
    /\ gems_template = NoScreen
    /\ retry_run_template = NoScreen
    /\ screen = NoScreen
    /\ surface = NoSurface
    /\ sleep_duration_secs = DEFAULT_SLEEP_SECS
    /\ log = <<>>
    /\ fcall \in FnCalls
    /\ fret = NoRet

FnUnchangedLoop ==
    UNCHANGED <<gems_template, retry_run_template, screen, surface,
                sleep_duration_secs, log, fcall>>

\* mask.crop(&img), ui.rs:89-91
CallCrop ==
    /\ pc = "call"
    /\ fcall.fn = "crop"
    /\ fret' = [tag |-> "image", image |-> crop(fcall.mask, fcall.img)]
    /\ pc' = "cropped"
    /\ FnUnchangedLoop

\* mask.to_point(x, y), ui.rs:98-103, on a coordinate of the cropped bitmap or
\* one past its last row or column (with_surface's bottom-right corner).
CallToPoint ==
    /\ pc = "cropped"
    /\ \E x \in 0 .. fret.image.width, y \in 0 .. fret.image.height :
        fret' = [tag |-> "point", image |-> fret.image, local |-> <<x, y>>,
                 point |-> to_point(fcall.mask, x, y)]
    /\ pc' = "returned"
    /\ FnUnchangedLoop

\* surface.random_point(), ui.rs:33-37
CallRandomPoint ==
    /\ pc = "call"
    /\ fcall.fn = "random_point"
    /\ IF random_point(fcall.surface) = {}
       THEN fret' = [tag |-> "Panic"]
       ELSE \E p \in random_point(fcall.surface) : fret' = [tag |-> "point", point |-> p]
    /\ pc' = "returned"
    /\ FnUnchangedLoop

\* with_surface(&screen, &template, mask), main.rs:95-134
CallWithSurface ==
    /\ pc = "call"
    /\ fcall.fn = "with_surface"
    /\ \E saved \in BOOLEAN, best_score \in Scores,
          best_location \in find_extremes_locations(
              apply(fcall.mask, fcall.screen), fcall.template, MaxImg + 1) :
        fret' = with_surface(fcall.screen, fcall.template, fcall.mask,
                             saved, best_score, best_location)
    /\ pc' = "returned"
    /\ FnUnchangedLoop

NextFn ==
    \/ CallCrop
    \/ CallToPoint
    \/ CallRandomPoint
    \/ CallWithSurface

SpecFn == InitFn /\ [][NextFn]_vars

----------------------------------------------------------------------------
(* Reading the history of a cycle *)

\* The cycle ran to its end: the end-of-cycle sleep returned.
CycleCompleted == log # <<>> /\ log[Len(log)].op = "sleep"

At(op) == { i \in DOMAIN log : log[i].op = op }

Evaluated(who) == { i \in At("eval") : log[i].who = who }

Matched(who) == \E i \in Evaluated(who) : log[i].hit

\* The rectangle of a mask, and of the captured screen.
InMask(mask, p) ==
    /\ mask.x <= p.x /\ p.x < mask.x + mask.width
    /\ mask.y <= p.y /\ p.y < mask.y + mask.height

InScreen(p) == p.x < screen.width /\ p.y < screen.height

MaskOf(who) == IF who = "gems" THEN GEM_COLUMN ELSE BATTLE_END_SCREEN

\* A mask's rectangle lies fully inside an image.
MaskInside(mask, img) ==
    /\ mask.x + mask.width <= img.width
    /\ mask.y + mask.height <= img.height

----------------------------------------------------------------------------
(* The claims *)

\* C1: in every cycle claim-gems/GEM_COLUMN is evaluated first and
\* retry-run/BATTLE_END_SCREEN second, and only when the first did not match:
\* once claim-gems matched, the cycle neither evaluates retry-run nor taps from
\* its surface.
C1_PriorityOrder ==
    /\ \A i \in Evaluated("retry") :
          \E j \in Evaluated("gems") : j < i /\ ~log[j].hit
    /\ Cardinality(Evaluated("gems")) <= 1
    /\ Cardinality(Evaluated("retry")) <= 1
    /\ Matched("gems") =>
          /\ Evaluated("retry") = {}
          /\ \A i \in At("tap") : log[i].who = "gems"

C1_Witness == CycleCompleted /\ Matched("gems") /\ Cardinality(At("tap")) = 2

\* C2: the end-of-cycle wait of a cycle in which claim-gems matched is strictly
\* longer than the wait of a cycle in which nothing matched.
C2_ClaimWaitLonger ==
    CycleCompleted =>
       LET wait == log[Len(log)].dur
       IN  /\ (~Matched("gems") /\ ~Matched("retry")) => wait = DEFAULT_SLEEP_SECS
           /\ Matched("gems") => wait > DEFAULT_SLEEP_SECS

C2_Witness == CycleCompleted /\ Matched("gems") /\ log[Len(log)].dur = GEMS_SLEEP_SECS

\* C3: with_surface returns Some(surface) exactly when the best score is at
\* least MIN_SCORE; a best score equal to MIN_SCORE is a match.
C3_ThresholdInclusive ==
    (fcall.fn = "with_surface" /\ fret.tag \in {"Some", "None"}) =>
        (fret.tag = "Some" <=> fret.best_score >= MIN_SCORE)

C3_Witness ==
    fcall.fn = "with_surface" /\ fret.tag = "Some" /\ fret.best_score = MIN_SCORE

\* C4: when the template is wider or taller than the region searched (the
\* cropped, thresholded mask output), with_surface fails (an Err, or the panic
\* of match_template's assertion) and returns neither None nor Some.
C4_OversizedTemplateFails ==
    (/\ fcall.fn = "with_surface"
     /\ fret.tag # "none"
     /\ LET input == apply(fcall.mask, fcall.screen)
        IN  \/ fcall.template.width > input.width
            \/ fcall.template.height > input.height)
        => fret.tag \in {"Err", "Panic"}

C4_Witness ==
    /\ fcall.fn = "with_surface"
    /\ fret.tag = "Panic"
    /\ fcall.template.width > apply(fcall.mask, fcall.screen).width
    /\ fcall.template.height <= apply(fcall.mask, fcall.screen).height

\* C5: a mask whose rectangle is not fully inside the image makes crop fail
\* with a "mask out of range" error, and never return a clamped bitmap.
C5_OutOfRangeIsAnError ==
    (/\ fcall.fn = "crop"
     /\ fret.tag # "none"
     /\ ~MaskInside(fcall.mask, fcall.img))
        => fret.tag = "Err"

\* C6: for a mask R fully inside the image, crop returns a bitmap of exactly
\* R.width x R.height whose pixel (i, j) is the image's pixel (R.x + i, R.y + j),
\* and to_point(i, j) is (R.x + i, R.y + j): the absolute coordinate of the
\* same pixel.
C6_CropToPoint ==
    (/\ fcall.fn = "crop"
     /\ fret.tag \in {"image", "point"}
     /\ MaskInside(fcall.mask, fcall.img))
        => LET R == fcall.mask
               out == fret.image
           IN  /\ out.width = R.width
               /\ out.height = R.height
               /\ \A i \in 0 .. R.width - 1, j \in 0 .. R.height - 1 :
                     out.px[<<i, j>>] = fcall.img.px[<<R.x + i, R.y + j>>]
               /\ fret.tag = "point" =>
                     LET i == fret.local[1]
                         j == fret.local[2]
                     IN  /\ fret.point = UIPoint(R.x + i, R.y + j)
                         /\ (i < R.width /\ j < R.height) =>
                               fcall.img.px[<<fret.point.x, fret.point.y>>]
                                   = out.px[<<i, j>>]

C6_Witness ==
    /\ fcall.fn = "crop"
    /\ fret.tag = "point"
    /\ MaskInside(fcall.mask, fcall.img)
    /\ fcall.mask.x > 0
    /\ fret.local = <<0, 1>>
    /\ fcall.mask.height > 1

\* C7: for a surface with top_left <= bottom_right on both axes, random_point
\* returns a point within the surface, both bounds included on each axis; for
\* top_left = bottom_right = (10, 10) it returns (10, 10).
C7_RandomPointInside ==
    (/\ fcall.fn = "random_point"
     /\ fret.tag # "none"
     /\ fcall.surface.top_left.x <= fcall.surface.bottom_right.x
     /\ fcall.surface.top_left.y <= fcall.surface.bottom_right.y)
        => /\ fret.tag = "point"
           /\ fcall.surface.top_left.x <= fret.point.x
           /\ fret.point.x <= fcall.surface.bottom_right.x
           /\ fcall.surface.top_left.y <= fret.point.y
           /\ fret.point.y <= fcall.surface.bottom_right.y
           /\ fcall.surface = UISurface(UIPoint(10, 10), UIPoint(10, 10))
                 => fret.point = UIPoint(10, 10)

C7_Witness ==
    /\ fcall.fn = "random_point"
    /\ fcall.surface = UISurface(UIPoint(10, 10), UIPoint(10, 10))
    /\ fret.tag = "point"

\* C8: when the capture of a cycle fails, the error leaves the loop: the cycle
\* does no matching, no tap and no wait, and nothing runs afterwards.
C8_CaptureErrorStopsLoop ==
    (log # <<>> /\ log[1].op = "capture" /\ ~log[1].hit) =>
        /\ Len(log) = 1
        /\ pc = "failed"
        /\ ~ENABLED Next

C8_Witness == log # <<>> /\ log[1].op = "capture" /\ ~log[1].hit /\ pc = "failed"

\* C9: a cycle that completes without error taps a fixed number of times,
\* decided by what matched: twice with exactly one pause of TAP_PAUSE_MS
\* between the taps when claim-gems matched, once when only retry-run matched,
\* never when nothing matched; every tap comes after the capture and before
\* the one end-of-cycle wait.
C9_FixedTapSequence ==
    CycleCompleted =>
        LET taps == At("tap")
            pauses == At("pause")
        IN  /\ At("capture") = {1}
            /\ At("sleep") = {Len(log)}
            /\ \A t \in taps : 1 < t /\ t < Len(log) /\ log[t].hit
            /\ Matched("gems") =>
                  /\ Cardinality(taps) = 2
                  /\ Cardinality(pauses) = 1
                  /\ \A q \in pauses :
                        /\ taps = {q - 1, q + 1}
                        /\ log[q].dur = TAP_PAUSE_MS
                  /\ \A t \in taps : log[t].who = "gems"
            /\ (~Matched("gems") /\ Matched("retry")) =>
                  /\ Cardinality(taps) = 1
                  /\ pauses = {}
                  /\ \A t \in taps : log[t].who = "retry"
            /\ (~Matched("gems") /\ ~Matched("retry")) =>
                  /\ taps = {}
                  /\ pauses = {}

C9_Witness ==
    /\ CycleCompleted
    /\ ~Matched("gems")
    /\ Matched("retry")
    /\ Cardinality(At("tap")) = 1

\* C10: every tap dispatched after a match lands inside the rectangle of the
\* mask that was searched, and inside the screen.  Stated for the screens that
\* contain the mask and for the taps the device accepted.
C10_TapInsideMask ==
    \A t \in At("tap") :
        (log[t].hit /\ MaskInside(MaskOf(log[t].who), screen)) =>
            /\ InMask(MaskOf(log[t].who), log[t].at)
            /\ InScreen(log[t].at)

====
